---- MODULE Spec2Model ----
(***************************************************************************)
(* AgentBazaar: agent discovery (server/hubchat/agent_registry.py) and the *)
(* task ledger and invocation coordinator of the UI backend                *)
(* (ui/server/routers/invoke.py, ui/server/routers/tasks.py and the        *)
(* repositories under ui/server/db/repositories).                          *)
(*                                                                         *)
(* Prices, costs and ratings are Python floats in the source; the model    *)
(* keeps them as integers (one unit = one cent, one rating step), which    *)
(* preserves order and exact sums.  Strings that are only compared for     *)
(* equality are TLA+ strings; skill tags, whose characters matter, are      *)
(* sequences of one-character strings.                                      *)
(***************************************************************************)
EXTENDS Integers, Sequences, FiniteSets, TLC

\* ------------------------------------------------------------------ bounds
MaxAgents == 2      \* registry entries in a discovery run
MaxPrice == 2       \* largest base price / price ceiling (cents)
MaxRequests == 3    \* tasks stored plus invoke-agent requests in one run
MaxPayments == 2    \* make_payment tool calls in one user request
MaxRounds == 5      \* rounds of one negotiation

\* ratings an agent may carry (rating steps)
Ratings == {41, 49}

VARIABLES
    registry,   \* AgentRegistry.agents, in insertion order (dict order)
    query,      \* the last discover_by_skill call: its arguments
    found,      \* ... and the list it returned
    best,       \* the last get_best_agent call: the agent it returned
    second,     \* a second discover_by_skill call, made for comparison
    agents,     \* table "agents": id -> row
    tasks,      \* table "tasks": sequence of rows, the id is the index
    steps,      \* table "task_steps": sequence of rows, the id is the index
    inv,        \* the invoke-agent request handlers: locals and position
    created,    \* the outcome of the last POST /api/tasks
    hub,        \* process_user_request: its locals, position and return value
    pay,        \* the make_payment tool calls of the request, in order
    locus,      \* the send_to_address calls the Locus server has received
    messages,   \* table "messages": the assistant messages with orchestration data
    listing,    \* the last answer of GET /api/payments/locus
    offered,    \* the last answer of the discover_agents tool
    invoked,    \* the last answer of the invoke_agent tool
    deal        \* a negotiation with the mock negotiator: the last round

dvars == <<registry, query, found, best, second>>
lvars == <<agents, tasks, steps, inv, created>>
tvars == <<offered, invoked, deal>>
mvars == <<messages, listing, offered, invoked, deal>>
pvars == <<hub, pay, locus, messages, listing, offered, invoked, deal>>
vars == <<registry, query, found, best, second,
          agents, tasks, steps, inv, created, hub, pay, locus, messages, listing,
          offered, invoked, deal>>

\* ------------------------------------------------------- strings and skills
\* str.lower() on one character
LowerChar(c) == CASE c = "A" -> "a" [] c = "B" -> "b" [] OTHER -> c

\* str.lower()
Lower(s) == [i \in 1..Len(s) |-> LowerChar(s[i])]

\* Python's `x in y` on two strings: x occurs in y as a contiguous substring
\* (the empty string occurs in every string)
StrIn(x, y) ==
    \E i \in 0..(Len(y) - Len(x)) : SubSeq(y, i + 1, i + Len(x)) = x

\* any(skill.lower() in s.lower() for s in agent["skills"])
HasSkill(agent, skill) ==
    \E k \in 1..Len(agent.skills) : StrIn(Lower(skill), Lower(agent.skills[k]))

\* skill lists an agent may declare, and the skills a caller may ask for
SkillLists ==
    { << <<"A", "b">> >>,
      << <<"b", "a">>, <<"a">> >> }

QuerySkills == { <<>>, <<"a">>, <<"A", "B">>, <<"b", "a">> }

\* Optional[float]: None, or a given value
NoPrice == [given |-> FALSE, value |-> 0]
PriceCeilings == {NoPrice} \cup {[given |-> TRUE, value |-> v] : v \in 0..MaxPrice}

\* no discover_by_skill call has been made
NoQuery == [asked |-> FALSE, skill |-> <<>>, max_price |-> NoPrice]

\* a price test that takes a missing ceiling for a ceiling of zero
Truthy_Always(p) == TRUE

\* Python truthiness of an Optional[float]: None and 0 are both falsy
Truthy(p) == p.given /\ p.value # 0

\* ------------------------------------------------------------ the registry
AgentAttrs ==
    [skills : SkillLists, base_price : 0..MaxPrice, rating : Ratings,
     available : BOOLEAN]

\* an entry of the registry: the attributes and the id (the dict key)
MkAgent(i, at) ==
    [id |-> i, skills |-> at.skills, base_price |-> at.base_price,
     rating |-> at.rating, available |-> at.available]


\* the sort key: (-a["rating"], a["base_price"]), compared as a tuple
KeyLess(a, b) ==
    \/ a.rating > b.rating
    \/ a.rating = b.rating /\ a.base_price < b.base_price

\* one insertion of a stable sort: x goes after every entry whose key is not
\* greater than its own
RECURSIVE InsertStable(_, _)
InsertStable(x, s) ==
    IF s = <<>> THEN <<x>>
    ELSE IF KeyLess(x, Head(s)) THEN <<x>> \o s
         ELSE <<Head(s)>> \o InsertStable(x, Tail(s))

\* list.sort(key=...): stable, ascending in the key
RECURSIVE SortStable(_)
SortStable(s) ==
    IF s = <<>> THEN <<>>
    ELSE InsertStable(s[Len(s)], SortStable(SubSeq(s, 1, Len(s) - 1)))

\* the filter loop of discover_by_skill: the agents kept, in dict order
RECURSIVE Matching(_, _, _)
Matching(reg, skill, max_price) ==
    IF reg = <<>> THEN <<>>
    ELSE LET agent == Head(reg)
             rest == Matching(Tail(reg), skill, max_price)
         IN  IF HasSkill(agent, skill)
                THEN IF Truthy(max_price) /\ agent.base_price > max_price.value
                        THEN rest
                        ELSE <<agent>> \o rest
                ELSE rest

\* AgentRegistry.discover_by_skill
discover_by_skill(reg, skill, max_price) ==
    SortStable(Matching(reg, skill, max_price))

\* AgentRegistry.get_best_agent: None (the empty sequence) if nothing
\* matches, else the first available agent of the list, else its first agent
RECURSIVE FirstAvailable(_)
FirstAvailable(s) ==
    IF s = <<>> THEN <<>>
    ELSE IF Head(s).available THEN <<Head(s)>>
         ELSE FirstAvailable(Tail(s))

\* a get_best_agent that gives up when no agent is available
get_best_agent_AvailableOnly(reg, skill, max_price) ==
    FirstAvailable(discover_by_skill(reg, skill, max_price))

get_best_agent(reg, skill, max_price) ==
    LET discovered == discover_by_skill(reg, skill, max_price)
    IN  IF discovered = <<>> THEN <<>>
        ELSE IF FirstAvailable(discovered) # <<>> THEN FirstAvailable(discovered)
             ELSE <<discovered[1]>>

\* no get_best_agent call, no second discover_by_skill call has been made
NoBest == [asked |-> FALSE, agent |-> <<>>]
NoSecond == [asked |-> FALSE, registry |-> <<>>, max_price |-> NoPrice, found |-> <<>>]

\* ------------------------------------------------------ the agent directory
AgentIds == {"translator"}

\* an AgentUpdate field: unset, or set to a value (model_dump(exclude_unset))
Unset == [set |-> FALSE, value |-> 0]
Set(v) == [set |-> TRUE, value |-> v]

\* update_data.get(key, current)
GetOr(field, current) == IF field.set THEN field.value ELSE current

\* the price check of AgentRepository.create and AgentRepository.update
PriceValid(base_price, dynamic_price) == ~(dynamic_price < base_price)

\* AgentRepository.create: 409 if the id exists, 400 if the prices are
\* inconsistent, else the row is inserted
CreateAgent(id, row) ==
    /\ IF id \in DOMAIN agents \/ ~PriceValid(row.base_price, row.dynamic_price)
          THEN agents' = agents
          ELSE agents' = [a \in DOMAIN agents \cup {id} |->
                            IF a = id THEN row ELSE agents[a]]
    /\ UNCHANGED <<dvars, pvars, tasks, steps, inv, created>>

\* AgentRepository.update: None if the id is unknown, 400 if the prices after
\* the update are inconsistent, else the fields that were set are overwritten
UpdateAgent(id, upd) ==
    /\ id \in DOMAIN agents
    /\ LET new_base == GetOr(upd.base_price, agents[id].base_price)
           new_dynamic == GetOr(upd.dynamic_price, agents[id].dynamic_price)
       IN  IF ~PriceValid(new_base, new_dynamic)
              THEN agents' = agents
              ELSE agents' = [agents EXCEPT ![id] =
                     [base_price |-> new_base,
                      dynamic_price |-> new_dynamic,
                      availability |->
                          IF upd.availability.set THEN upd.availability.value
                          ELSE agents[id].availability]]
    /\ UNCHANGED <<dvars, pvars, tasks, steps, inv, created>>

\* AgentRepository.delete: the row is removed; references to it are not checked
DeleteAgent(id) ==
    /\ id \in DOMAIN agents
    /\ agents' = [a \in DOMAIN agents \ {id} |-> agents[a]]
    /\ UNCHANGED <<dvars, pvars, tasks, steps, inv, created>>

\* ------------------------------------------------------------- the task ledger
TaskStatuses == {"created", "in_progress", "completed", "failed"}

\* a create that refuses only a negative budget
BudgetValid_NegativeOnly(max_budget) == ~(max_budget < 0)

\* TaskRepository.create, the validation: max_budget <= 0 is refused
BudgetValid(max_budget) == ~(max_budget <= 0)

\* TaskRepository.create, the row: TaskModel(id=task_id, **task_data.model_dump())
\* takes every field of the request, status and total_cost included.
\* initial_cost and committed are history fields: the total_cost the row was
\* stored with, and the sum of the costs of the invocations that succeeded.
TaskRow(task_data) ==
    [status |-> task_data.status,
     max_budget |-> task_data.max_budget,
     total_cost |-> task_data.total_cost,
     initial_cost |-> task_data.total_cost,
     committed |-> 0]

\* no POST /api/tasks has been answered
NoCreate == [kind |-> "none", id |-> 0, max_budget |-> 0]

\* the requests the run has taken so far: tasks stored, invocations received
Requests == Len(tasks) + Cardinality({i \in DOMAIN inv : inv[i].pc # "idle"})

\* POST /api/tasks: create_task -> TaskRepository.create
CreateTask(task_data) ==
    /\ Requests < MaxRequests
    /\ IF ~BudgetValid(task_data.max_budget)
          THEN /\ created' = [kind |-> "ValidationError", id |-> 0,
                              max_budget |-> task_data.max_budget]
               /\ tasks' = tasks
          ELSE /\ tasks' = Append(tasks, TaskRow(task_data))
               /\ created' = [kind |-> "ok", id |-> Len(tasks) + 1,
                              max_budget |-> task_data.max_budget]
    /\ UNCHANGED <<dvars, pvars, agents, steps, inv>>

\* TaskRepository.update_status(task_id, status, total_cost): the status is
\* always written, total_cost only when it is given
TaskRepository_update_status(row, status, total_cost) ==
    [row EXCEPT !.status = status,
                !.total_cost = IF total_cost.set THEN total_cost.value ELSE @]

\* TaskStepRepository.create, the validation: a negative cost is refused
StepCostValid(cost) == ~(cost < 0)

\* TaskStepRepository.update_status(step_id, status, result, external_cost):
\* the status is always written, the other fields only when they are given
TaskStepRepository_update_status(row, status, result, external_cost) ==
    [row EXCEPT !.status = status,
                !.result = IF result.set THEN result.value ELSE @,
                !.external_cost = IF external_cost.set THEN external_cost.value ELSE @]

\* TaskStepRepository.create, the row: TaskStepModel(id=step_id,
\* **step_data.model_dump())
StepRow(step_data) ==
    [task_id |-> step_data.task_id, agent_id |-> step_data.agent_id,
     status |-> step_data.status, cost |-> step_data.cost,
     external_cost |-> step_data.external_cost, result |-> ""]

\* TaskStepRepository.create called by a user of the ledger: a negative cost
\* is refused, else the row is stored (the task id is not looked up)
StepCreate(step_data) ==
    /\ Len(steps) < MaxRequests
    /\ IF ~StepCostValid(step_data.cost)
          THEN steps' = steps
          ELSE steps' = Append(steps, StepRow(step_data))
    /\ UNCHANGED <<dvars, pvars, agents, tasks, inv, created>>

\* TaskStepRepository.update_status called by a user of the ledger: None if
\* the step is unknown, else the row is written whatever its status was
StepUpdate(step_id, status, result, external_cost) ==
    /\ IF step_id \in DOMAIN steps
          THEN steps' = [steps EXCEPT ![step_id] =
                  TaskStepRepository_update_status(@, status, result, external_cost)]
          ELSE steps' = steps
    /\ UNCHANGED <<dvars, pvars, agents, tasks, inv, created>>

\* ------------------------------------------------- the invocation coordinator
InvIds == 1..(MaxRequests - 1)

\* the fields of the agent and of the task that the handler reads from the
\* objects it fetched (agent.availability, agent.dynamic_price; task.status,
\* task.total_cost); the handler never fetches them again
AgentRead(row) == [dynamic_price |-> row.dynamic_price, availability |-> row.availability]
TaskRead(row) == [status |-> row.status, total_cost |-> row.total_cost]

NoAgentRow == [dynamic_price |-> 0, availability |-> FALSE]
NoTaskRow == [status |-> "none", total_cost |-> 0]
NoResponse == [kind |-> "none", cost |-> 0]
NoRemote == [ok |-> FALSE, result |-> "", external_cost |-> 0, error |-> ""]

\* a handler that has not received its request
Idle ==
    [pc |-> "idle", agent_id |-> "", task_id |-> 0,
     agent |-> NoAgentRow, task |-> NoTaskRow,
     step |-> 0, result_data |-> NoRemote, response |-> NoResponse,
     calls |-> 0, status_at_failure |-> "none", task_failed |-> FALSE]

\* the handler returns (or raises): its response is kept, the objects it had
\* fetched are gone with its frame
Return(h, kind, cost) ==
    [h EXCEPT !.pc = "done", !.agent = NoAgentRow, !.task = NoTaskRow,
              !.result_data = NoRemote,
              !.response = [kind |-> kind, cost |-> cost]]

\* what the remote /execute call may answer: a result with an external cost,
\* or a failure (httpx.HTTPError, or any other exception)
Results == {"Bonjour"}
ExternalCosts == {0, 1}
RemoteAnswers ==
    {[ok |-> TRUE, result |-> r, external_cost |-> e, error |-> ""] :
        r \in Results, e \in ExternalCosts}
    \cup {[ok |-> FALSE, result |-> "", external_cost |-> 0, error |-> m] :
            m \in {"HTTP Error", "Error"}}

\* lines 55-61: the agent lookup; 404 if the agent is not found.  The
\* handlers are numbered in the order in which their requests arrive.
ReadAgent(i, agent_id, task_id) ==
    /\ inv[i].pc = "idle"
    /\ \A j \in InvIds : j < i => inv[j].pc # "idle"
    /\ Requests < MaxRequests
    /\ IF agent_id \in DOMAIN agents
          THEN inv' = [inv EXCEPT ![i].pc = "read_task", ![i].agent_id = agent_id,
                                  ![i].task_id = task_id,
                                  ![i].agent = AgentRead(agents[agent_id])]
          ELSE inv' = [inv EXCEPT ![i] =
                         Return([@ EXCEPT !.agent_id = agent_id, !.task_id = task_id],
                                "AgentNotFound", 0)]
    /\ UNCHANGED <<dvars, pvars, agents, tasks, steps, created>>

\* a handler without the availability check
Validate_NoAvailability(task_known, agent) ==
    IF ~task_known THEN "TaskNotFound" ELSE "ok"

\* a handler that checks the availability before the task
Validate_AvailabilityFirst(task_known, agent) ==
    IF ~agent.availability THEN "AgentUnavailable"
    ELSE IF ~task_known THEN "TaskNotFound"
    ELSE "ok"

\* a handler that refuses to work once a stored Task has used up its budget
Validate_BudgetEnforced(task_known, agent) ==
    IF ~task_known THEN "TaskNotFound"
    ELSE IF ~agent.availability THEN "AgentUnavailable"
    ELSE IF \E t \in DOMAIN tasks : tasks[t].total_cost >= tasks[t].max_budget
            THEN "BudgetExceeded"
    ELSE "ok"

\* lines 63-76: the outcome of the two checks that follow the agent lookup
Validate(task_known, agent) ==
    IF ~task_known THEN "TaskNotFound"
    ELSE IF ~agent.availability THEN "AgentUnavailable"
    ELSE "ok"

\* lines 63-76: the task lookup (404 if not found), then the availability
\* check on the agent that was read (503 if unavailable)
ReadTask(i) ==
    /\ inv[i].pc = "read_task"
    /\ LET task_known == inv[i].task_id \in DOMAIN tasks
           verdict == Validate(task_known, inv[i].agent)
       IN  IF verdict = "ok"
              THEN inv' = [inv EXCEPT ![i].pc = "create_step",
                                      ![i].task = TaskRead(tasks[inv[i].task_id])]
              ELSE inv' = [inv EXCEPT ![i] = Return(@, verdict, 0)]
    /\ UNCHANGED <<dvars, pvars, agents, tasks, steps, created>>

\* lines 78-89: step_repo.create with status in_progress and the dynamic price
\* of the agent that was read; TaskStepRepository.create refuses a negative cost
CreateStep(i) ==
    /\ inv[i].pc = "create_step"
    /\ IF ~StepCostValid(inv[i].agent.dynamic_price)
          THEN /\ inv' = [inv EXCEPT ![i] = Return(@, "ValidationError", 0)]
               /\ steps' = steps
          ELSE /\ steps' = Append(steps, StepRow(
                     [task_id |-> inv[i].task_id, agent_id |-> inv[i].agent_id,
                      status |-> "in_progress", cost |-> inv[i].agent.dynamic_price,
                      external_cost |-> 0]))
               /\ inv' = [inv EXCEPT ![i].pc = "call", ![i].step = Len(steps) + 1]
    /\ UNCHANGED <<dvars, pvars, agents, tasks, created>>

\* lines 94-124: the POST to the agent's /execute endpoint answers with a
\* result; the step is marked completed with the result and external_cost.
\* (The answer is local to the handler until the step is written, so the two
\* awaits are one action.)
CompleteStep(i, answer) ==
    /\ inv[i].pc = "call"
    /\ answer.ok
    /\ steps' = [steps EXCEPT ![inv[i].step] =
                   TaskStepRepository_update_status(@, "completed",
                       Set(answer.result), Set(answer.external_cost))]
    /\ inv' = [inv EXCEPT ![i].pc = "update_task", ![i].result_data = answer,
                          ![i].calls = @ + 1]
    /\ UNCHANGED <<dvars, pvars, agents, tasks, created>>

\* line 114: total_cost = agent.dynamic_price + external_cost
InvocationCost(h) == h.agent.dynamic_price + h.result_data.external_cost

\* lines 127-128: the new total, from the task as the handler read it
NewTotalCost(h) == h.task.total_cost + InvocationCost(h)

\* a success branch that closes the task
NewStatus_Completes(h) == "completed"

\* line 131: the new status, from the task as the handler read it
NewStatus(h) == IF h.task.status = "completed" THEN h.task.status ELSE "in_progress"

\* lines 126-147: the task row is written and the handler answers success
UpdateTask(i) ==
    /\ inv[i].pc = "update_task"
    /\ tasks' = [tasks EXCEPT ![inv[i].task_id] =
                   [TaskRepository_update_status(@, NewStatus(inv[i]),
                                                 Set(NewTotalCost(inv[i])))
                      EXCEPT !.committed = @ + InvocationCost(inv[i])]]
    /\ inv' = [inv EXCEPT ![i] = Return(@, "success", InvocationCost(inv[i]))]
    /\ UNCHANGED <<dvars, pvars, agents, steps, created>>

\* lines 159 and 185: the task is failed if it was "just created"
FailsTask(h) == h.task.status = "created"

\* a failure branch that sends the request again
FailStep_Retry(i, answer) ==
    /\ inv[i].pc = "call"
    /\ ~answer.ok
    /\ inv[i].calls < 2
    /\ inv' = [inv EXCEPT ![i].calls = @ + 1]
    /\ UNCHANGED <<dvars, pvars, agents, tasks, steps, created>>

\* a failure branch that answers without writing the step
FailStep_NoStepWrite(i, answer) ==
    /\ inv[i].pc = "call"
    /\ ~answer.ok
    /\ inv' = [inv EXCEPT ![i] = Return([@ EXCEPT !.calls = @ + 1], "failure", 0)]
    /\ UNCHANGED <<dvars, pvars, agents, tasks, steps, created>>

\* lines 94-106, 149-156 and 175-182: the POST fails (httpx.HTTPError, or any
\* other exception); the step is marked failed with the error text, and
\* without a task update the handler answers failure at once
FailStep(i, answer) ==
    /\ inv[i].pc = "call"
    /\ ~answer.ok
    /\ steps' = [steps EXCEPT ![inv[i].step] =
                   TaskStepRepository_update_status(@, "failed",
                       Set(answer.error), Unset)]
    /\ LET h == [inv[i] EXCEPT !.status_at_failure = tasks[inv[i].task_id].status,
                               !.calls = @ + 1]
       IN  inv' = [inv EXCEPT ![i] =
                     IF FailsTask(h) THEN [h EXCEPT !.pc = "fail_task"]
                     ELSE Return(h, "failure", 0)]
    /\ UNCHANGED <<dvars, pvars, agents, tasks, created>>

\* a failure branch that writes the total back as zero
FailedTaskUpdate_ZeroTotal(row) == TaskRepository_update_status(row, "failed", Set(0))

\* lines 160-163 and 186-189: task_repo.update_status(task_id, status="failed"),
\* no total_cost is passed
FailedTaskUpdate(row) == TaskRepository_update_status(row, "failed", Unset)

\* lines 158-173 and 184-199: the task is marked failed, the handler answers
FailTask(i) ==
    /\ inv[i].pc = "fail_task"
    /\ tasks' = [tasks EXCEPT ![inv[i].task_id] = FailedTaskUpdate(@)]
    /\ inv' = [inv EXCEPT ![i] = Return([@ EXCEPT !.task_failed = TRUE], "failure", 0)]
    /\ UNCHANGED <<dvars, pvars, agents, steps, created>>

\* ------------------------------------------------------- payments (hubchat)
\* the agents make_payment is asked to pay: one with a wallet, one without,
\* one that is not in AGENT_REGISTRY
PayAgentIds == {"translator", "mock_busy", "ghost"}

\* AGENT_REGISTRY, the wallet addresses: "translator" carries one, "mock_busy"
\* has no wallet_address key ("" stands for the missing value: both are falsy)
AGENT_REGISTRY ==
    [a \in {"translator", "mock_busy"} |->
        [wallet_address |-> IF a = "translator" THEN "0xe1e1" ELSE ""]]

\* registry.get_agent_by_id: self.agents.get(agent_id)
AgentKnown(agent_id) == agent_id \in DOMAIN AGENT_REGISTRY

\* agent_info.get("wallet_address")
WalletOf(agent_id) == AGENT_REGISTRY[agent_id].wallet_address

\* the amounts a make_payment call may carry
PayAmounts == {-1, 0, 1}

\* a make_payment that looks the agent up before it looks at the amount
PaymentCheck_AgentFirst(agent_id, amount) ==
    IF ~AgentKnown(agent_id) THEN "AgentNotFound"
    ELSE IF amount <= 0 THEN "InvalidAmount"
    ELSE IF WalletOf(agent_id) = "" THEN "NoWallet"
    ELSE "ok"

\* make_payment_tool, lines 246-277: the preconditions, in the order of the
\* code.  (The `if not locus_client` test of line 236 never fires: the
\* LocusClient constructor only stores its argument and cannot raise.)
PaymentCheck(agent_id, amount) ==
    IF amount <= 0 THEN "InvalidAmount"
    ELSE IF ~AgentKnown(agent_id) THEN "AgentNotFound"
    ELSE IF WalletOf(agent_id) = "" THEN "NoWallet"
    ELSE "ok"

\* what the Locus MCP server may do with a tools/call request: the HTTP
\* exchange raises (connection error, timeout, non-2xx, no JSON in the
\* stream), or a JSON-RPC response arrives that carries either a "result"
\* (with its content list and isError flag) or an "error" object
McpReplies ==
    { [raised |-> TRUE,  member |-> "none",   content |-> <<>>, isError |-> FALSE],
      [raised |-> FALSE, member |-> "result", content |-> <<"sent">>, isError |-> FALSE],
      [raised |-> FALSE, member |-> "result", content |-> <<"limit exceeded">>, isError |-> TRUE],
      [raised |-> FALSE, member |-> "error",  content |-> <<>>, isError |-> FALSE] }

\* the collaborator reports that the transfer was made
TransferMade(reply) == ~reply.raised /\ reply.member = "result" /\ ~reply.isError

\* LocusClient.send_to_address, lines 103-110: response_data is
\* result.get("result", {}); both return statements carry success True
send_to_address(reply) ==
    LET content == IF reply.member = "result" THEN reply.content ELSE <<>>
    IN  IF content # <<>>
           THEN [success |-> TRUE, message |-> content[1]]
           ELSE [success |-> TRUE, message |-> "Payment processed"]

\* the result of a make_payment tool call
NoToolResult == [kind |-> "none", is_error |-> FALSE, payment_success |-> FALSE]
ToolError(kind) == [kind |-> kind, is_error |-> TRUE, payment_success |-> FALSE]

\* make_payment_tool, lines 279-315: the transfer and the tool result
TransferResult(reply) ==
    IF reply.raised THEN ToolError("PaymentError")
    ELSE LET result == send_to_address(reply)
         IN  [kind |-> "Processed", is_error |-> ~result.success,
              payment_success |-> result.success]

\* no discover_agents and no invoke_agent call has been made
NoOffer == [asked |-> FALSE, is_error |-> FALSE, agents |-> <<>>, recommended |-> <<>>]
NoInvoke == [asked |-> FALSE, agent_id |-> "", outcome |-> "none"]

\* no offer has been made to the mock negotiator
NoDeal == [round |-> 0, first |-> 0, offered_price |-> 0, accepted |-> FALSE,
           counter_offer |-> NoPrice]

\* GET /api/payments/locus has not been asked
NoListing == [asked |-> FALSE, payments |-> <<>>]

\* process_user_request before its request is sent: the locals of lines 385-389
NoHubResponse == [success |-> FALSE, payments_made |-> <<>>, total_cost |-> 0, total_paid |-> 0]
HubStart ==
    /\ hub = [pc |-> "collecting", payments_made |-> <<>>, total_cost |-> 0,
              response |-> NoHubResponse]
    /\ pay = <<>>
    /\ locus = <<>>
    /\ messages = <<>>
    /\ listing = NoListing
    /\ offered = NoOffer
    /\ invoked = NoInvoke
    /\ deal = NoDeal

\* the model emits a make_payment tool-use block (the SDK runs the tool and
\* hands the block to receive_response)
ToolUse(agent_id, amount) ==
    /\ hub.pc = "collecting"
    /\ Len(pay) < MaxPayments
    /\ pay' = Append(pay, [agent_id |-> agent_id, amount |-> amount,
                           result |-> NoToolResult, transfer |-> 0,
                           tracked |-> FALSE])
    /\ UNCHANGED <<dvars, lvars, mvars, hub, locus>>

\* make_payment_tool runs for call k, the oldest call that has not run: a
\* failed precondition returns at once, else send_to_address is called
make_payment_tool(k, reply) ==
    /\ k \in DOMAIN pay
    /\ pay[k].result.kind = "none"
    /\ \A j \in 1..(k - 1) : pay[j].result.kind # "none"
    /\ LET check == PaymentCheck(pay[k].agent_id, pay[k].amount)
       IN  IF check # "ok"
              THEN /\ pay' = [pay EXCEPT ![k].result = ToolError(check)]
                   /\ locus' = locus
              ELSE /\ locus' = Append(locus,
                          [address |-> WalletOf(pay[k].agent_id),
                           amount |-> pay[k].amount, reply |-> reply])
                   /\ pay' = [pay EXCEPT ![k].result = TransferResult(reply),
                                         ![k].transfer = Len(locus) + 1]
    /\ UNCHANGED <<dvars, lvars, mvars, hub>>

\* lines 437-438: the recipient shown for a tracked payment
RecipientOf(agent_id) ==
    IF AgentKnown(agent_id) /\ WalletOf(agent_id) # "" THEN WalletOf(agent_id)
    ELSE "unknown"

\* lines 429-447: process_user_request meets the make_payment block of call k
\* in the response stream (blocks arrive in order) and tracks it
TrackPayment(k) ==
    /\ hub.pc = "collecting"
    /\ k \in DOMAIN pay
    /\ ~pay[k].tracked
    /\ \A j \in 1..(k - 1) : pay[j].tracked
    /\ pay' = [pay EXCEPT ![k].tracked = TRUE]
    /\ hub' = [hub EXCEPT
                 !.payments_made = Append(@, [agent_id |-> pay[k].agent_id,
                                              amount |-> pay[k].amount,
                                              recipient |-> RecipientOf(pay[k].agent_id)]),
                 !.total_cost = @ + pay[k].amount]
    /\ UNCHANGED <<dvars, lvars, mvars, locus>>

\* sum(p["amount"] for p in payments_made)
RECURSIVE SumAmounts(_)
SumAmounts(ps) == IF ps = <<>> THEN 0 ELSE Head(ps).amount + SumAmounts(Tail(ps))

\* lines 449-463: the response stream ends, every tool call has run and every
\* block has been seen; the result carries the tracked payments
HubReturn ==
    /\ hub.pc = "collecting"
    /\ \A k \in DOMAIN pay : pay[k].tracked /\ pay[k].result.kind # "none"
    /\ hub' = [hub EXCEPT !.pc = "returned",
                 !.response = [success |-> TRUE,
                               payments_made |-> hub.payments_made,
                               total_cost |-> hub.total_cost,
                               total_paid |-> SumAmounts(hub.payments_made)]]
    /\ UNCHANGED <<dvars, lvars, mvars, pay, locus>>

\* lines 465-479: the SDK client raises while the response is collected; the
\* result carries empty lists and zero totals
HubError ==
    /\ hub.pc = "collecting"
    /\ hub' = [hub EXCEPT !.pc = "returned",
                 !.response = [success |-> FALSE, payments_made |-> <<>>,
                               total_cost |-> 0, total_paid |-> 0]]
    /\ UNCHANGED <<dvars, lvars, mvars, pay, locus>>

\* send_chat_message, lines 106-120: the result of process_user_request is
\* stored as the assistant message, payments_made and total_paid in its
\* orchestration data; MessageRepository.create gives it a fresh id
StoreMessage ==
    /\ hub.pc = "returned"
    /\ messages' = Append(messages,
                      [id |-> Len(messages) + 1,
                       payments_made |-> hub.response.payments_made,
                       total_paid |-> hub.response.total_paid])
    /\ hub' = [hub EXCEPT !.pc = "stored"]
    /\ UNCHANGED <<dvars, lvars, tvars, pay, locus, listing>>

\* get_locus_payments, lines 74-84: one LocusPayment of the listing; the id
\* f"{msg.id}-{agent_id}" is kept as the pair of its two parts
LocusPayment(msg, payment) ==
    [id |-> <<msg.id, payment.agent_id>>, agent_id |-> payment.agent_id,
     amount |-> payment.amount, recipient_wallet |-> payment.recipient]

\* lines 68-84: the payments of the messages, message by message
RECURSIVE PaymentsOfMessages(_)
PaymentsOfMessages(msgs) ==
    IF msgs = <<>> THEN <<>>
    ELSE [k \in DOMAIN Head(msgs).payments_made |->
             LocusPayment(Head(msgs), Head(msgs).payments_made[k])]
         \o PaymentsOfMessages(Tail(msgs))

\* MessageRepository.get_assistant_with_orchestration(limit): at most limit
\* of the stored assistant messages that carry orchestration data
get_assistant_with_orchestration(msgs, limit) ==
    SubSeq(msgs, 1, IF Len(msgs) < limit THEN Len(msgs) ELSE limit)

\* get_locus_payments, lines 65-93, for limit >= 1: the collection stops at
\* limit payments and payments[:limit] is returned
get_locus_payments(msgs, limit) ==
    LET payments == PaymentsOfMessages(
                        get_assistant_with_orchestration(msgs, limit * 10))
    IN  SubSeq(payments, 1, IF Len(payments) < limit THEN Len(payments) ELSE limit)

\* the limits the listing is asked with (100 is the default)
Limits == {1, 100}

\* GET /api/payments/locus?limit=...
GetLocusPayments(limit) ==
    /\ listing' = [asked |-> TRUE, payments |-> get_locus_payments(messages, limit)]
    /\ UNCHANGED <<dvars, lvars, tvars, hub, pay, locus, messages>>

\* ------------------------------------------------------------ ledger: inputs
\* the rows POST /api/agents is tried with: a regular agent, available or
\* not, an agent with a negative price, and one with dynamic_price < base_price
AgentRows ==
    { [base_price |-> 1, dynamic_price |-> 1, availability |-> TRUE],
      [base_price |-> 1, dynamic_price |-> 1, availability |-> FALSE],
      [base_price |-> -1, dynamic_price |-> -1, availability |-> TRUE],
      [base_price |-> 1, dynamic_price |-> -1, availability |-> TRUE] }

\* the changes PATCH /api/agents/{id} is tried with: the availability is
\* switched, or the dynamic price is set below zero
NoChange ==
    [base_price |-> Unset, dynamic_price |-> Unset,
     availability |-> [set |-> FALSE, value |-> FALSE]]

AgentUpdates ==
    { [NoChange EXCEPT !.availability = Set(TRUE)],
      [NoChange EXCEPT !.availability = Set(FALSE)],
      [NoChange EXCEPT !.dynamic_price = Set(-1)] }

\* the bodies POST /api/tasks is tried with: the defaults with a valid or an
\* invalid budget, or a status and a total_cost chosen by the client
TaskRequests ==
    { [status |-> "created", total_cost |-> 0, max_budget |-> 1],
      [status |-> "created", total_cost |-> 0, max_budget |-> 0],
      [status |-> "created", total_cost |-> 0, max_budget |-> -1],
      [status |-> "completed", total_cost |-> 3, max_budget |-> 1] }

LedgerEmpty ==
    /\ agents = <<>>
    /\ tasks = <<>>
    /\ steps = <<>>
    /\ inv = [i \in InvIds |-> Idle]
    /\ created = NoCreate

Init ==
    /\ registry = <<>>
    /\ query = NoQuery
    /\ found = <<>>
    /\ best = NoBest
    /\ second = NoSecond
    /\ LedgerEmpty
    /\ HubStart

Next ==
    \/ \E id \in AgentIds, row \in AgentRows : CreateAgent(id, row)
    \/ \E id \in AgentIds, upd \in AgentUpdates : UpdateAgent(id, upd)
    \/ \E id \in AgentIds : DeleteAgent(id)
    \/ \E task_data \in TaskRequests : CreateTask(task_data)
    \/ \E i \in InvIds, agent_id \in AgentIds, task_id \in 1..(Len(tasks) + 1) :
          ReadAgent(i, agent_id, task_id)
    \/ \E i \in InvIds : ReadTask(i)
    \/ \E i \in InvIds : CreateStep(i)
    \/ \E i \in InvIds, answer \in RemoteAnswers : CompleteStep(i, answer)
    \/ \E i \in InvIds : UpdateTask(i)
    \/ \E i \in InvIds, answer \in RemoteAnswers : FailStep(i, answer)
    \/ \E i \in InvIds : FailTask(i)

Spec == Init /\ [][Next]_vars

\* the scheduling of a handler: the event loop resumes a coroutine whose await
\* has completed, and the POST to the agent is bounded by
\* httpx.AsyncClient(timeout=30.0), so it answers or raises
HandlerFairness ==
    \A i \in InvIds :
        /\ WF_vars(ReadTask(i))
        /\ WF_vars(CreateStep(i))
        /\ WF_vars(\E answer \in RemoteAnswers :
                      CompleteStep(i, answer) \/ FailStep(i, answer))
        /\ WF_vars(UpdateTask(i))
        /\ WF_vars(FailTask(i))

SpecLive == Spec /\ HandlerFairness

\* ------------------------------------------- the step repository used directly
\* the step data and the updates a user of the ledger may pass
StepRequests ==
    [task_id : {1}, agent_id : AgentIds, status : {"in_progress"},
     cost : {-1, 1}, external_cost : {0}]

StepResults == {[set |-> FALSE, value |-> ""], Set("Bonjour"), Set("Hallo")}
StepExternalCosts == {Unset, Set(0), Set(1)}

NextRepo ==
    \/ \E step_data \in StepRequests : StepCreate(step_data)
    \/ \E step_id \in 1..MaxRequests, status \in {"completed", "failed"},
          result \in StepResults, external_cost \in StepExternalCosts :
          StepUpdate(step_id, status, result, external_cost)

SpecRepo == Init /\ [][NextRepo]_vars

\* --------------------------------------------- the agent directory on its own
\* the ids, rows and changes POST /api/agents and PATCH /api/agents/{id} are
\* tried with: AgentCreate.id is any str, the empty one included; the prices
\* are any pair; a change sets either price, both or none
DirectoryIds == {"", "translator"}

DirectoryRows ==
    [base_price : 0..MaxPrice, dynamic_price : 0..MaxPrice, availability : BOOLEAN]

PriceFields == {Unset} \cup {Set(v) : v \in 0..MaxPrice}

DirectoryUpdates ==
    [base_price : PriceFields, dynamic_price : PriceFields,
     availability : {[set |-> FALSE, value |-> FALSE]}]

NextDirectory ==
    \/ \E id \in DirectoryIds, row \in DirectoryRows : CreateAgent(id, row)
    \/ \E id \in DirectoryIds, upd \in DirectoryUpdates : UpdateAgent(id, upd)
    \/ \E id \in DirectoryIds : DeleteAgent(id)

SpecDirectory == Init /\ [][NextDirectory]_vars

\* ------------------------------------------------------ payments: actions
NextPay ==
    \/ \E agent_id \in PayAgentIds, amount \in PayAmounts : ToolUse(agent_id, amount)
    \/ \E k \in 1..MaxPayments, reply \in McpReplies : make_payment_tool(k, reply)
    \/ \E k \in 1..MaxPayments : TrackPayment(k)
    \/ HubReturn
    \/ HubError
    \/ StoreMessage
    \/ \E limit \in Limits : GetLocusPayments(limit)

SpecPay == Init /\ [][NextPay]_vars

\* ------------------------------------------------- the orchestrator's tools
\* AGENT_REGISTRY as the orchestrator's tools see it: its entries in dict
\* order, prices in cents and ratings in hundredths of a star
AGENT_REGISTRY_items ==
    <<
       MkAgent("summarizer",
           [skills |-> <<<<"s", "u", "m", "m", "a", "r", "i", "z", "e">>,
                         <<"c", "o", "n", "d", "e", "n", "s", "e">>,
                         <<"a", "n", "a", "l", "y", "z", "e">>,
                         <<"e", "x", "t", "r", "a", "c", "t">>>>,
            base_price |-> 5, rating |-> 480, available |-> TRUE]),
       MkAgent("translator",
           [skills |-> <<<<"t", "r", "a", "n", "s", "l", "a", "t", "e">>,
                         <<"l", "o", "c", "a", "l", "i", "z", "e">>,
                         <<"l", "a", "n", "g", "u", "a", "g", "e">>>>,
            base_price |-> 10, rating |-> 490, available |-> TRUE]),
       MkAgent("search",
           [skills |-> <<<<"s", "e", "a", "r", "c", "h">>,
                         <<"r", "e", "s", "e", "a", "r", "c", "h">>,
                         <<"w", "e", "b">>,
                         <<"f", "i", "n", "d">>>>,
            base_price |-> 8, rating |-> 470, available |-> TRUE]),
       MkAgent("mock_busy",
           [skills |-> <<<<"t", "e", "s", "t">>,
                         <<"m", "o", "c", "k">>>>,
            base_price |-> 5, rating |-> 320, available |-> FALSE]),
       MkAgent("mock_highprice",
           [skills |-> <<<<"p", "r", "e", "m", "i", "u", "m">>,
                         <<"t", "e", "s", "t">>>>,
            base_price |-> 85, rating |-> 495, available |-> TRUE]),
       MkAgent("mock_negotiator",
           [skills |-> <<<<"n", "e", "g", "o", "t", "i", "a", "t", "e">>,
                         <<"t", "e", "s", "t">>>>,
            base_price |-> 50, rating |-> 410, available |-> TRUE])
    >>

\* AGENT_URLS: the agents invoke_agent has an endpoint for
AGENT_URLS == {"summarizer", "translator", "search"}

\* discover_agents_tool: an error for a missing skill, "no agents found" for
\* an empty list, else the ids of the list and its first id as recommended
discover_agents_tool(reg, skill, max_price) ==
    IF skill = <<>>
       THEN [asked |-> TRUE, is_error |-> TRUE, agents |-> <<>>, recommended |-> <<>>]
       ELSE LET list == discover_by_skill(reg, skill, max_price)
            IN  [asked |-> TRUE, is_error |-> FALSE,
                 agents |-> [k \in DOMAIN list |-> list[k].id],
                 recommended |-> IF list = <<>> THEN <<>> ELSE <<list[1].id>>]

\* the agent ids an answer of discover_agents names: listed or recommended
OfferedIds(offer) ==
    {offer.agents[k] : k \in DOMAIN offer.agents}
        \cup {offer.recommended[k] : k \in DOMAIN offer.recommended}

\* invoke_agent_tool: a payload string that is not JSON is refused, then an
\* agent_id outside AGENT_URLS, else the agent's /execute endpoint is called
invoke_agent_tool(agent_id, payload_ok, answer_ok) ==
    IF ~payload_ok THEN "InvalidPayload"
    ELSE IF agent_id \notin AGENT_URLS THEN "UnknownAgent"
    ELSE IF answer_ok THEN "executed"
    ELSE "RemoteError"

\* the skills and price ceilings the tool is called with (cents), and the
\* agent ids invoke_agent is called with
ToolSkills == {<<>>, <<"t", "e", "s", "t">>, <<"m", "o", "c", "k">>, <<"t", "r", "a", "n", "s", "l", "a", "t", "e">>, <<"e">>, <<"p", "r", "e", "m", "i", "u", "m">>}
ToolCeilings == {NoPrice} \cup {[given |-> TRUE, value |-> v] : v \in {0, 5, 50, 85}}
ToolAgentIds == {AGENT_REGISTRY_items[k].id : k \in DOMAIN AGENT_REGISTRY_items} \cup {"ghost"}

\* one call of the discover_agents tool
DiscoverAgents(skill, max_price) ==
    /\ ~invoked.asked
    /\ offered' = discover_agents_tool(registry, skill, max_price)
    /\ UNCHANGED <<dvars, lvars, hub, pay, locus, messages, listing, invoked, deal>>

\* one call of the invoke_agent tool
InvokeAgent(agent_id, payload_ok, answer_ok) ==
    /\ offered.asked
    /\ ~invoked.asked
    /\ invoked' = [asked |-> TRUE, agent_id |-> agent_id,
                   outcome |-> invoke_agent_tool(agent_id, payload_ok, answer_ok)]
    /\ UNCHANGED <<dvars, lvars, hub, pay, locus, messages, listing, offered, deal>>

InitTools ==
    /\ registry = AGENT_REGISTRY_items
    /\ query = NoQuery
    /\ found = <<>>
    /\ best = NoBest
    /\ second = NoSecond
    /\ LedgerEmpty
    /\ HubStart

NextTools ==
    \/ \E skill \in ToolSkills, max_price \in ToolCeilings :
          DiscoverAgents(skill, max_price)
    \/ \E agent_id \in ToolAgentIds, payload_ok \in BOOLEAN, answer_ok \in BOOLEAN :
          InvokeAgent(agent_id, payload_ok, answer_ok)

SpecTools == InitTools /\ [][NextTools]_vars

\* ------------------------------------------------------ the mock negotiator
\* prices of the negotiator in half cents: 0.60 and 0.40 dollars
initial_price == 120
min_acceptable_price == 80

\* initial_price * 0.85, 0.51 dollars: an offer of at least this is accepted
AcceptFrom == 102

\* round((offered_price + initial_price) / 2, 2): the mean, rounded to a cent; a
\* mean that lies halfway between two cents goes to the one its binary
\* representation is nearer to, either of them (up)
Counter(offered_price, up) ==
    LET quarters == offered_price + initial_price
        cents == quarters \div 4
        rest == quarters % 4
    IN  2 * (IF rest = 3 \/ (rest = 2 /\ up) THEN cents + 1 ELSE cents)

\* a negotiator that gives in only after round 3
negotiate_LateAccept(offered_price, round_num, up) ==
    IF offered_price >= AcceptFrom
       THEN [accepted |-> TRUE, counter_offer |-> NoPrice]
    ELSE IF offered_price >= min_acceptable_price
       THEN IF round_num > 3
               THEN [accepted |-> TRUE, counter_offer |-> NoPrice]
               ELSE [accepted |-> FALSE,
                     counter_offer |-> [given |-> TRUE, value |-> Counter(offered_price, up)]]
    ELSE [accepted |-> FALSE,
          counter_offer |-> [given |-> TRUE, value |-> min_acceptable_price]]

\* POST /negotiate: the answer to offered_price in round round_num
negotiate(offered_price, round_num, up) ==
    IF offered_price >= AcceptFrom
       THEN [accepted |-> TRUE, counter_offer |-> NoPrice]
    ELSE IF offered_price >= min_acceptable_price
       THEN IF round_num >= 3
               THEN [accepted |-> TRUE, counter_offer |-> NoPrice]
               ELSE [accepted |-> FALSE,
                     counter_offer |-> [given |-> TRUE, value |-> Counter(offered_price, up)]]
    ELSE [accepted |-> FALSE,
          counter_offer |-> [given |-> TRUE, value |-> min_acceptable_price]]

\* the first offers of a buyer, in half cents: from below zero to above the
\* asking price
Offers == -2..140

\* the buyer's offer of a round and the negotiator's answer to it
Offer(first, offered_price, round_num, up) ==
    LET answer == negotiate(offered_price, round_num, up)
    IN  /\ deal' = [round |-> round_num, first |-> first, offered_price |-> offered_price,
                    accepted |-> answer.accepted,
                    counter_offer |-> answer.counter_offer]
        /\ UNCHANGED <<dvars, lvars, hub, pay, locus, messages, listing,
                       offered, invoked>>

\* round 1: the buyer starts with any offer
FirstOffer(offered_price, up) ==
    /\ deal.round = 0
    /\ Offer(offered_price, offered_price, 1, up)

\* a following round: the buyer offers the counter-offer it just received
NextOffer(up) ==
    /\ deal.round > 0
    /\ deal.round < MaxRounds
    /\ ~deal.accepted
    /\ deal.counter_offer.given
    /\ Offer(deal.first, deal.counter_offer.value, deal.round + 1, up)

NextNegotiate ==
    \/ \E offered_price \in Offers, up \in BOOLEAN : FirstOffer(offered_price, up)
    \/ \E up \in BOOLEAN : NextOffer(up)

SpecNegotiate == Init /\ [][NextNegotiate]_vars

\* ------------------------------------------------------- discovery: actions
InitDiscover ==
    /\ \E n \in 0..MaxAgents : \E f \in [1..n -> AgentAttrs] :
          registry = [i \in 1..n |-> MkAgent(i, f[i])]
    /\ query = NoQuery
    /\ found = <<>>
    /\ best = NoBest
    /\ second = NoSecond
    /\ LedgerEmpty
    /\ HubStart

\* one call of discover_by_skill(skill, max_price)
Discover(skill, max_price) ==
    /\ ~query.asked
    /\ query' = [asked |-> TRUE, skill |-> skill, max_price |-> max_price]
    /\ found' = discover_by_skill(registry, skill, max_price)
    /\ UNCHANGED <<registry, best, second, lvars, pvars>>

NextDiscover ==
    \E skill \in QuerySkills, max_price \in PriceCeilings :
        Discover(skill, max_price)

SpecDiscover == InitDiscover /\ [][NextDiscover]_vars

\* one call of get_best_agent(skill, max_price); found is the list its call
\* of discover_by_skill returned (the local `agents` of line 148)
GetBest(skill, max_price) ==
    /\ ~query.asked
    /\ query' = [asked |-> TRUE, skill |-> skill, max_price |-> max_price]
    /\ found' = discover_by_skill(registry, skill, max_price)
    /\ best' = [asked |-> TRUE, agent |-> get_best_agent(registry, skill, max_price)]
    /\ UNCHANGED <<registry, second, lvars, pvars>>

NextBest ==
    \E skill \in QuerySkills, max_price \in PriceCeilings :
        GetBest(skill, max_price)

SpecBest == InitDiscover /\ [][NextBest]_vars

\* the directories that hold the descriptors of reg in some registration
\* order (AGENT_REGISTRY is a dict: items() iterates in insertion order)
Reorderings(reg) ==
    LET n == Len(reg)
        perms == {p \in [1..n -> 1..n] : \A i, j \in 1..n : p[i] = p[j] => i = j}
    IN  {[i \in 1..n |-> reg[p[i]]] : p \in perms}

\* a second call of discover_by_skill, for the skill of the first call, on
\* the directory reg2 with the ceiling max_price
DiscoverAgain(reg2, max_price) ==
    /\ query.asked
    /\ ~second.asked
    /\ second' = [asked |-> TRUE, registry |-> reg2, max_price |-> max_price,
                  found |-> discover_by_skill(reg2, query.skill, max_price)]
    /\ UNCHANGED <<registry, query, found, best, lvars, pvars>>

\* the same query on a directory registered in another order
NextOrder ==
    \/ \E skill \in QuerySkills, max_price \in PriceCeilings :
          Discover(skill, max_price)
    \/ \E reg2 \in Reorderings(registry) : DiscoverAgain(reg2, query.max_price)

SpecOrder == InitDiscover /\ [][NextOrder]_vars

\* the same query on the same directory without a price ceiling
NextSuperset ==
    \/ \E skill \in QuerySkills, max_price \in PriceCeilings :
          Discover(skill, max_price)
    \/ DiscoverAgain(registry, NoPrice)

SpecSuperset == InitDiscover /\ [][NextSuperset]_vars



\* ---------------------------------------------------------------- claims
\* the result is ordered by rating descending, then base_price ascending
Ordered(s) ==
    \A i \in 1..(Len(s) - 1) :
        \/ s[i].rating > s[i + 1].rating
        \/ s[i].rating = s[i + 1].rating /\ s[i].base_price <= s[i + 1].base_price

\* C1: for every skill s and every price ceiling p (p = 0 included),
\* discover_by_skill(s, p) returns only agents with base_price <= p that have
\* a skill tag containing s as a case-insensitive substring, ordered by
\* rating descending, then base_price ascending.
C1_DiscoverFiltersAndSorts ==
    (query.asked /\ query.max_price.given) =>
        /\ \A i \in 1..Len(found) :
              /\ found[i].base_price <= query.max_price.value
              /\ HasSkill(found[i], query.skill)
        /\ Ordered(found)

\* a handler is at work on task t: it has read the task and not yet returned
InFlight(i, t) ==
    inv[i].task_id = t /\ inv[i].pc \in {"create_step", "call", "update_task", "fail_task"}

\* C2: when an invocation's step fails, the parent Task is moved to failed if
\* and only if the Task was still in status created at that moment; a Task
\* that is already in_progress is left unchanged, whatever the interleaving.
C2_TaskFailedIffCreated ==
    \A i \in InvIds :
        (inv[i].pc = "done" /\ inv[i].response.kind = "failure") =>
            (inv[i].task_failed <=> inv[i].status_at_failure = "created")

\* C3: concurrent invocations on one Task lose no update to total_cost: once
\* none is at work on the Task, its total_cost is the value it started with
\* plus the costs (step cost + external_cost) of the successful invocations.
C3_NoLostUpdate ==
    \A t \in DOMAIN tasks :
        (\A i \in InvIds : ~InFlight(i, t)) =>
            tasks[t].total_cost = tasks[t].initial_cost + tasks[t].committed

\* C4: a successful invocation has marked its step completed with the remote
\* result, raises the Task's total_cost by exactly the step's planned cost
\* plus the reported external_cost, and returns that amount as its cost.
C4_SuccessAddsExactCost ==
    [][\A i \in InvIds :
         (inv[i].pc = "update_task" /\ inv'[i].pc = "done") =>
            LET st == steps[inv[i].step]
                t == inv[i].task_id
            IN  /\ st.status = "completed"
                /\ st.result = inv[i].result_data.result
                /\ st.external_cost = inv[i].result_data.external_cost
                /\ tasks'[t].total_cost = tasks[t].total_cost + st.cost + st.external_cost
                /\ inv'[i].response = [kind |-> "success",
                                       cost |-> st.cost + st.external_cost]]_vars

\* C5: completing a step that is already completed is rejected or a no-op:
\* the recorded state of a completed step does not change again.
C5_CompletedStepIsFinal ==
    [][\A s \in DOMAIN steps :
         steps[s].status = "completed" => steps'[s] = steps[s]]_vars

\* C6: a Task's status moves only along created -> in_progress ->
\* {completed | failed} (a first-step failure takes created to failed), and
\* a completed or failed Task never changes its status again.
C6_TaskStatusMachine ==
    [][\A t \in DOMAIN tasks :
         \/ tasks'[t].status = tasks[t].status
         \/ tasks[t].status = "created" /\ tasks'[t].status \in {"in_progress", "failed"}
         \/ tasks[t].status = "in_progress" /\ tasks'[t].status \in {"completed", "failed"}]_vars

\* C7: every Task returned by create_task has status created and total_cost
\* 0, whatever the creation request contains.
C7_NewTaskIsCreatedAtZero ==
    [][Len(tasks') > Len(tasks) =>
         /\ tasks'[Len(tasks')].status = "created"
         /\ tasks'[Len(tasks')].total_cost = 0]_vars

\* C8: create_task with max_budget <= 0 fails with a validation error and
\* stores no Task; every stored Task has max_budget > 0.
C8_BudgetValidated ==
    /\ \A t \in DOMAIN tasks : tasks[t].max_budget > 0
    /\ (created.kind # "none" /\ created.max_budget <= 0) =>
          (created.kind = "ValidationError" /\ created.id = 0)
    /\ created.kind = "ok" => created.id \in DOMAIN tasks

\* a create_task request with a budget of zero or less has been refused, and
\* a Task has been stored by another request
C8_Witness ==
    /\ created.kind = "ValidationError"
    /\ created.max_budget <= 0
    /\ Len(tasks) > 0

C10_NotFoundRejected ==
    /\ [](\A i \in InvIds :
            inv[i].response.kind \in {"AgentNotFound", "TaskNotFound"} =>
                inv[i].pc = "done" /\ inv[i].step = 0 /\ inv[i].calls = 0)
    /\ [][\A i \in InvIds :
            /\ (/\ inv[i].pc = "idle"
                /\ inv'[i].pc # "idle"
                /\ inv'[i].agent_id \notin DOMAIN agents) =>
                   /\ inv'[i].response.kind = "AgentNotFound"
                   /\ inv'[i].pc = "done"
                   /\ steps' = steps
            /\ (/\ inv[i].pc = "read_task"
                /\ inv'[i] # inv[i]
                /\ inv[i].task_id \notin DOMAIN tasks) =>
                   /\ inv'[i].response.kind = "TaskNotFound"
                   /\ inv'[i].pc = "done"
                   /\ steps' = steps]_vars

\* one handler has answered not-found for an agent that had been registered
\* and deleted, another for a task id that was never stored
C10_Witness ==
    /\ \E i \in InvIds : inv[i].response.kind = "AgentNotFound"
    /\ \E i \in InvIds :
          /\ inv[i].response.kind = "TaskNotFound"
          /\ inv[i].task_id \notin DOMAIN tasks

\* the error texts a failed step may carry
ErrorTexts == {"HTTP Error", "Error"}

C12_PreconditionOrder ==
    \A k \in DOMAIN pay :
        pay[k].result.kind # "none" =>
            /\ pay[k].amount <= 0 => pay[k].result.kind = "InvalidAmount"
            /\ (pay[k].amount > 0 /\ pay[k].agent_id = "ghost") =>
                  pay[k].result.kind = "AgentNotFound"
            /\ (pay[k].amount > 0 /\ pay[k].agent_id = "mock_busy") =>
                  pay[k].result.kind = "NoWallet"
            /\ pay[k].result.kind \in {"InvalidAmount", "AgentNotFound", "NoWallet"} =>
                  pay[k].result.is_error

\* one call with a non-positive amount for an unknown agent was answered
\* invalid-amount, another with a positive amount agent-not-found
C12_Witness ==
    /\ \E k \in DOMAIN pay :
          /\ pay[k].agent_id = "ghost" /\ pay[k].amount <= 0
          /\ pay[k].result.kind = "InvalidAmount"
    /\ \E k \in DOMAIN pay :
          /\ pay[k].agent_id = "ghost" /\ pay[k].amount > 0
          /\ pay[k].result.kind = "AgentNotFound"

\* the arguments of a call fail the amount or the wallet precondition
FailsPrecondition(c) ==
    c.amount <= 0 \/ (c.agent_id = "mock_busy" /\ c.amount > 0)

\* C13: a make_payment call that fails a precondition (amount <= 0, or no
\* wallet configured) makes no transfer call and leaves no payment record: it
\* is not added to payments_made and changes neither the total paid nor the
\* reported total cost.
C13_RejectedPaymentLeavesNoRecord ==
    /\ [](\A k \in DOMAIN pay :
            pay[k].result.kind \in {"InvalidAmount", "NoWallet"} => pay[k].transfer = 0)
    /\ [][\A k \in DOMAIN pay :
            (FailsPrecondition(pay[k]) /\ ~pay[k].tracked /\ pay'[k].tracked) =>
                /\ hub'.payments_made = hub.payments_made
                /\ hub'.total_cost = hub.total_cost]_vars
    /\ [](hub.response.success =>
            \A j \in DOMAIN hub.response.payments_made :
                ~FailsPrecondition(hub.response.payments_made[j]))

\* the amounts of the calls whose transfer the tool reported as made
RECURSIVE SumSucceeded(_)
SumSucceeded(calls) ==
    IF calls = <<>> THEN 0
    ELSE (IF Head(calls).result.payment_success THEN Head(calls).amount ELSE 0)
         + SumSucceeded(Tail(calls))

\* C14: a failed transfer is still recorded, and total_paid is the sum of
\* amount over the payments that succeeded only: when every call of a request
\* passed its preconditions, the total_paid of the result is the sum of the
\* amounts of the calls whose transfer succeeded.
C14_TotalPaidCountsSuccessOnly ==
    (/\ hub.pc = "returned"
     /\ hub.response.success
     /\ \A k \in DOMAIN pay : PaymentCheck(pay[k].agent_id, pay[k].amount) = "ok") =>
        /\ Len(hub.response.payments_made) = Len(pay)
        /\ hub.response.total_paid = SumSucceeded(pay)

\* C15: whenever the transfer collaborator fails, by raising or by returning
\* an error outcome (a JSON-RPC error response, or a result flagged isError),
\* make_payment returns an error to its caller.
C15_CollaboratorFailureReported ==
    \A k \in DOMAIN pay :
        (pay[k].transfer # 0 /\ ~TransferMade(locus[pay[k].transfer].reply)) =>
            (pay[k].result.is_error /\ ~pay[k].result.payment_success)

\* C16: get_best_agent(skill, max_price) returns the first agent of
\* discover_by_skill(skill, max_price) that is available; if the list is not
\* empty but holds no available agent it returns the top-ranked agent anyway;
\* if the list is empty it returns None.
C16_BestAgent ==
    best.asked =>
        LET avail == {i \in 1..Len(found) : found[i].available}
        IN  /\ found = <<>> => best.agent = <<>>
            /\ (found # <<>> /\ avail = {}) => best.agent = <<found[1]>>
            /\ avail # {} =>
                  \E i \in avail :
                      /\ best.agent = <<found[i]>>
                      /\ \A j \in avail : i <= j

\* get_best_agent has returned an unavailable agent (none of the agents
\* discovered was available), the top-ranked of two
C16_Witness ==
    /\ best.asked
    /\ Len(found) = 2
    /\ best.agent = <<found[1]>>
    /\ ~found[1].available

\* entries that tie on rating and price are in the order of their ids
TiesById(s) ==
    \A i \in 1..(Len(s) - 1) :
        (s[i].rating = s[i + 1].rating /\ s[i].base_price = s[i + 1].base_price) =>
            s[i].id < s[i + 1].id

\* C17: the result of discover is a function of the set of registered
\* descriptors only: two directories holding the same descriptors in
\* different registration order return the same sequence for the same
\* (skill, max_price), entries that tie on rating and price being ordered by id.
C17_OrderIndependent ==
    (second.asked /\ second.max_price = query.max_price) =>
        /\ second.found = found
        /\ TiesById(found)
        /\ TiesById(second.found)

\* C18: for every skill s and every price ceiling p, every agent returned by
\* discover(s, p) is also returned by discover(s, None).
C18_UnfilteredIsSuperset ==
    (second.asked /\ second.registry = registry /\ ~second.max_price.given) =>
        \A i \in 1..Len(found) :
            \E j \in 1..Len(second.found) : second.found[j] = found[i]

\* a ceiling has removed an agent and kept another: the list without a
\* ceiling is strictly longer than the non-empty list with it
C18_Witness ==
    /\ second.asked
    /\ ~second.max_price.given
    /\ query.max_price.given
    /\ found # <<>>
    /\ Len(found) < Len(second.found)

\* C19: after any sequence of agent create and update operations, every
\* stored agent has dynamic_price >= base_price and a non-empty id (a create
\* or update that would break this is rejected and stores nothing).
C19_AgentInvariant ==
    \A id \in DOMAIN agents :
        /\ agents[id].dynamic_price >= agents[id].base_price
        /\ id # ""

\* C20: while a Task is not failed its total_cost never decreases: in every
\* step of every execution, overlapping invocations on the same Task
\* included, the new total_cost is at least the old one.
C20_TotalCostMonotone ==
    [][\A t \in DOMAIN tasks :
         tasks[t].status # "failed" => tasks'[t].total_cost >= tasks[t].total_cost]_vars

\* C21: a Task enters in_progress when its first step is created: once an
\* invocation has created a step for a Task it read as created, and while
\* its remote call is in flight, the Task's status is in_progress.
C21_InProgressOnFirstStep ==
    \A i \in InvIds :
        (inv[i].pc = "call" /\ inv[i].task.status = "created") =>
            tasks[inv[i].task_id].status = "in_progress"

\* C22: once a TaskStep has reached a terminal status (completed or failed),
\* its cost and external_cost fields never change again.
C22_TerminalStepCostsFrozen ==
    [][\A s \in DOMAIN steps :
         steps[s].status \in {"completed", "failed"} =>
            /\ steps'[s].cost = steps[s].cost
            /\ steps'[s].external_cost = steps[s].external_cost]_vars

Validated(i) == inv[i].step # 0

\* C24: each invoke call that passes validation creates exactly one new
\* TaskStep and makes at most one remote execute call: a failed call is not
\* retried, and repeating an invoke for the same task and agent creates a
\* further, distinct TaskStep.
C24_OneStepOneCall ==
    /\ \A i \in InvIds :
          /\ inv[i].calls <= 1
          /\ inv[i].response.kind \in {"success", "failure"} =>
                (Validated(i) /\ inv[i].calls = 1)
          /\ inv[i].pc \in {"call", "update_task", "fail_task"} => Validated(i)
          /\ Validated(i) =>
                /\ inv[i].step \in DOMAIN steps
                /\ steps[inv[i].step].task_id = inv[i].task_id
                /\ steps[inv[i].step].agent_id = inv[i].agent_id
    /\ \A i, j \in InvIds :
          (i # j /\ Validated(i) /\ Validated(j)) => inv[i].step # inv[j].step
    /\ Len(steps) = Cardinality({i \in InvIds : Validated(i)})

\* an invoke whose remote call failed has returned after one call, and the
\* same invoke (same task, same agent) made again has its own step
C24_Witness ==
    \E i, j \in InvIds :
        /\ i # j
        /\ inv[i].response.kind = "failure" /\ inv[i].calls = 1
        /\ inv[j].pc = "done" /\ Validated(j)
        /\ inv[j].task_id = inv[i].task_id
        /\ inv[j].agent_id = inv[i].agent_id
        /\ inv[j].step # inv[i].step

\* C25: no invocation ever moves a Task to completed: a successful step
\* completion leaves a created or in_progress Task in_progress and leaves a
\* completed Task completed, even when every step of the Task has finished.
C25_NeverCompletes ==
    [][/\ \A t \in DOMAIN tasks :
             tasks'[t].status = "completed" => tasks[t].status = "completed"
       /\ \A i \in InvIds :
             (inv[i].pc = "update_task" /\ inv'[i].pc = "done") =>
                LET t == inv[i].task_id
                IN  /\ tasks[t].status \in {"created", "in_progress"} =>
                          tasks'[t].status = "in_progress"
                    /\ tasks[t].status = "completed" =>
                          tasks'[t].status = "completed"]_vars

\* an invocation has succeeded on a Task, every step of the Task is
\* completed, no invocation is at work on it, and the Task is in_progress
C25_Witness ==
    \E i \in InvIds :
        /\ inv[i].response.kind = "success"
        /\ tasks[inv[i].task_id].status = "in_progress"
        /\ \A j \in InvIds : ~InFlight(j, inv[i].task_id)
        /\ \A s \in DOMAIN steps :
              steps[s].task_id = inv[i].task_id => steps[s].status = "completed"

\* C26: the core never rejects an invocation because of the budget: invoke
\* on a known Task and an available agent proceeds to the step creation
\* whatever the Task's max_budget and total_cost are, so that a Task's
\* total_cost can exceed its max_budget.
C26_BudgetNotEnforced ==
    [][\A i \in InvIds :
         (/\ inv[i].pc = "read_task"
          /\ inv'[i] # inv[i]
          /\ inv[i].task_id \in DOMAIN tasks
          /\ inv[i].agent.availability) =>
             /\ inv'[i].pc = "create_step"
             /\ inv'[i].task = TaskRead(tasks[inv[i].task_id])]_vars

\* two invocations have succeeded on a Task that was stored with a total of
\* zero, and its total_cost is above its max_budget
C26_Witness ==
    \E i, j \in InvIds :
        /\ i # j
        /\ inv[i].response.kind = "success"
        /\ inv[j].response.kind = "success"
        /\ inv[i].task_id = inv[j].task_id
        /\ tasks[inv[i].task_id].initial_cost = 0
        /\ tasks[inv[i].task_id].total_cost > tasks[inv[i].task_id].max_budget

\* C27: every payment record of the Locus payments listing has an id that is
\* unique among the listed payments, also when one request made several
\* payments to the same agent.
C27_ListedPaymentIdsUnique ==
    \A i, j \in DOMAIN listing.payments :
        i # j => listing.payments[i].id # listing.payments[j].id

\* C28: every make_payment call issued (run and tracked) while a user request
\* is processed is visible in the request's result, also when the request
\* ends with an error: it is in payments_made, and total_paid is the sum the
\* request tracked.
C28_AttemptedPaymentsReturned ==
    hub.pc = "returned" =>
        /\ \A k \in DOMAIN pay :
              (pay[k].tracked /\ pay[k].result.kind # "none") =>
                  /\ k \in DOMAIN hub.response.payments_made
                  /\ hub.response.payments_made[k].agent_id = pay[k].agent_id
                  /\ hub.response.payments_made[k].amount = pay[k].amount
        /\ hub.response.total_paid = hub.total_cost

\* C29: every agent id that discover_agents returns or recommends is accepted
\* by invoke_agent: an invocation of such an id with a well-formed payload is
\* not refused as an unknown agent.
C29_OfferedAgentsInvocable ==
    (invoked.asked /\ invoked.agent_id \in OfferedIds(offered)
        /\ invoked.outcome # "InvalidPayload")
    => invoked.outcome # "UnknownAgent"

\* C30: the counter-offer loop of the mock negotiator ends within 3 rounds: a
\* buyer who starts at round 1 with any offer and then offers each
\* counter-offer it receives is accepted at round 3 at the latest.
C30_AcceptedByRoundThree ==
    /\ deal.round <= 3
    /\ deal.round = 3 => deal.accepted

\* a buyer who started below the minimum price is accepted in round 3
C30_Witness ==
    /\ deal.round = 3
    /\ deal.accepted
    /\ deal.first < min_acceptable_price

====
